---- MODULE Spec2Model ----
(***************************************************************************)
(* Model of bankSim.cpp: the BankAccount hierarchy (CheckingAccount,       *)
(* SavingsAccount), the Bank that owns the accounts, and main().           *)
(*                                                                         *)
(* Amounts (C++ double) are modelled as exact rationals [n, d] in lowest   *)
(* terms; IEEE rounding, infinities and NaN are outside the model.         *)
(***************************************************************************)
EXTENDS Integers, Sequences, FiniteSets, TLC

VARIABLES accounts, prev, registered, pending, ptr, key, last, calls, client, pc, exitCode, stderr

vars == <<accounts, prev, registered, pending, ptr, key, last, calls, client, pc, exitCode, stderr>>

\* ------------------------------------------------------------- bounds
MaxAccounts == 2
MaxCalls == 2

\* ------------------------------------------------ exact amounts (double)
Abs(x) == IF x < 0 THEN -x ELSE x

RECURSIVE GCD(_, _)
GCD(a, b) == IF b = 0 THEN a ELSE GCD(b, a % b)

Rat(n, d) == LET g == GCD(Abs(n), d) IN [n |-> n \div g, d |-> d \div g]
R(k) == [n |-> k, d |-> 1]
Zero == R(0)
Add(a, b) == Rat(a.n * b.d + b.n * a.d, a.d * b.d)
Sub(a, b) == Rat(a.n * b.d - b.n * a.d, a.d * b.d)
Mul(a, b) == Rat(a.n * b.n, a.d * b.d)
Lt(a, b) == a.n * b.d < b.n * a.d
Le(a, b) == a.n * b.d <= b.n * a.d
Gt(a, b) == Lt(b, a)
Ge(a, b) == Le(b, a)

\* ------------------------------------------------------ program constants
MONTHLY_FEE == R(10)
OVERDRAFT_LIMIT == R(100)
INTEREST_RATE == Rat(5, 100)
MINIMUM_BALANCE == R(100)

NegativeInitialBalance == "Initial balance cannot be negative"
InvalidDeposit == "Deposit amount must be positive"
InvalidWithdrawal == "Withdrawal amount must be positive"
BelowMinimumBalance == "Minimum initial balance for Savings is $100.000000"
NoException == ""

\* A null std::unique_ptr<BankAccount> / no object constructed.
NoAccount == [type |-> "none"]

\* ------------------------------------------------------------ BankAccount
\* Mutant: the constructor without its initial-balance check.
BankAccountCtorUnchecked(type, number, name, initialBalance) ==
    [obj |-> [type |-> type, accountNumber |-> number,
              accountHolderName |-> name, balance |-> initialBalance],
     exc |-> NoException]

\* BankAccount::BankAccount: members are initialised, then the balance check
\* throws, in which case no object results.
BankAccountCtor(type, number, name, initialBalance) ==
    IF Lt(initialBalance, Zero)
    THEN [obj |-> NoAccount, exc |-> NegativeInitialBalance]
    ELSE [obj |-> [type |-> type, accountNumber |-> number,
                   accountHolderName |-> name, balance |-> initialBalance],
          exc |-> NoException]

\* Mutant: deposit rejecting only amount < 0.
DepositAcceptsZero(acct, amount) ==
    IF Lt(amount, Zero)
    THEN [acct |-> acct, exc |-> InvalidDeposit]
    ELSE [acct |-> [acct EXCEPT !.balance = Add(acct.balance, amount)],
          exc |-> NoException]

\* BankAccount::deposit
Deposit(acct, amount) ==
    IF Le(amount, Zero)
    THEN [acct |-> acct, exc |-> InvalidDeposit]
    ELSE [acct |-> [acct EXCEPT !.balance = Add(acct.balance, amount)],
          exc |-> NoException]

\* Mutant: the base withdraw granting the Checking overdraft.
BaseWithdrawOverdraft(acct, amount) ==
    IF Le(amount, Zero)
    THEN [acct |-> acct, ret |-> FALSE, exc |-> InvalidWithdrawal]
    ELSE IF Gt(amount, Add(acct.balance, OVERDRAFT_LIMIT))
    THEN [acct |-> acct, ret |-> FALSE, exc |-> NoException]
    ELSE [acct |-> [acct EXCEPT !.balance = Sub(acct.balance, amount)],
          ret |-> TRUE, exc |-> NoException]

\* BankAccount::withdraw (used by SavingsAccount, which does not override it)
BaseWithdraw(acct, amount) ==
    IF Le(amount, Zero)
    THEN [acct |-> acct, ret |-> FALSE, exc |-> InvalidWithdrawal]
    ELSE IF Gt(amount, acct.balance)
    THEN [acct |-> acct, ret |-> FALSE, exc |-> NoException]
    ELSE [acct |-> [acct EXCEPT !.balance = Sub(acct.balance, amount)],
          ret |-> TRUE, exc |-> NoException]

\* -------------------------------------------------------- CheckingAccount
CheckingAccountCtor(number, name, initialBalance) ==
    BankAccountCtor("Checking", number, name, initialBalance)

\* Mutant: the overdraft test with >= for >.
CheckingWithdrawStrict(acct, amount) ==
    IF Le(amount, Zero)
    THEN [acct |-> acct, ret |-> FALSE, exc |-> InvalidWithdrawal]
    ELSE IF Ge(amount, Add(acct.balance, OVERDRAFT_LIMIT))
    THEN [acct |-> acct, ret |-> FALSE, exc |-> NoException]
    ELSE [acct |-> [acct EXCEPT !.balance = Sub(acct.balance, amount)],
          ret |-> TRUE, exc |-> NoException]

\* CheckingAccount::withdraw
CheckingWithdraw(acct, amount) ==
    IF Le(amount, Zero)
    THEN [acct |-> acct, ret |-> FALSE, exc |-> InvalidWithdrawal]
    ELSE IF Gt(amount, Add(acct.balance, OVERDRAFT_LIMIT))
    THEN [acct |-> acct, ret |-> FALSE, exc |-> NoException]
    ELSE [acct |-> [acct EXCEPT !.balance = Sub(acct.balance, amount)],
          ret |-> TRUE, exc |-> NoException]

\* Mutant: the fee charged whatever the balance.
CheckingApplyMonthlyFeeAlways(acct) ==
    [acct EXCEPT !.balance = Sub(acct.balance, MONTHLY_FEE)]

\* CheckingAccount::applyMonthlyFee
CheckingApplyMonthlyFee(acct) ==
    IF Ge(acct.balance, MONTHLY_FEE)
    THEN [acct EXCEPT !.balance = Sub(acct.balance, MONTHLY_FEE)]
    ELSE acct

\* --------------------------------------------------------- SavingsAccount
\* Mutant: the Savings constructor without its minimum-balance check.
SavingsAccountCtorNoMinimum(number, name, initialBalance) ==
    BankAccountCtor("Savings", number, name, initialBalance)

\* SavingsAccount::SavingsAccount: the base constructor runs (and may throw)
\* first, then the minimum-balance check.
SavingsAccountCtor(number, name, initialBalance) ==
    LET base == BankAccountCtor("Savings", number, name, initialBalance)
    IN  IF base.exc # NoException THEN base
        ELSE IF Lt(initialBalance, MINIMUM_BALANCE)
        THEN [obj |-> NoAccount, exc |-> BelowMinimumBalance]
        ELSE base

\* Mutant: balance *= rate for balance += balance * rate.
SavingsApplyMonthlyFeeScaled(acct) ==
    [acct EXCEPT !.balance = Mul(acct.balance, INTEREST_RATE)]

\* SavingsAccount::applyMonthlyFee
SavingsApplyMonthlyFee(acct) ==
    [acct EXCEPT !.balance = Add(acct.balance, Mul(acct.balance, INTEREST_RATE))]

\* ------------------------------------------------------- virtual dispatch
MakeUnique(type, number, name, initialBalance) ==
    IF type = "Checking"
    THEN CheckingAccountCtor(number, name, initialBalance)
    ELSE SavingsAccountCtor(number, name, initialBalance)

Withdraw(acct, amount) ==
    IF acct.type = "Checking" THEN CheckingWithdraw(acct, amount)
    ELSE BaseWithdraw(acct, amount)

\* Mutant: applyMonthlyFee bound statically to the Checking version.
ApplyMonthlyFeeStatic(acct) == CheckingApplyMonthlyFee(acct)

ApplyMonthlyFee(acct) ==
    IF acct.type = "Checking" THEN CheckingApplyMonthlyFee(acct)
    ELSE SavingsApplyMonthlyFee(acct)

\* ------------------------------------------------------------------- Bank
\* Bank::addAccount
AddAccount(accts, account) == Append(accts, account)

\* Bank::findAccount: linear scan from the front; 0 stands for nullptr, and
\* a non-null pointer is the position of the owned object it points at.
RECURSIVE FindFrom(_, _, _)
FindFrom(accts, accountNumber, i) ==
    IF i > Len(accts) THEN 0
    ELSE IF accts[i].accountNumber = accountNumber THEN i
    ELSE FindFrom(accts, accountNumber, i + 1)

\* Mutant: the scan keeping the last match instead of returning the first.
RECURSIVE FindLastFrom(_, _, _)
FindLastFrom(accts, accountNumber, i) ==
    IF i < 1 THEN 0
    ELSE IF accts[i].accountNumber = accountNumber THEN i
    ELSE FindLastFrom(accts, accountNumber, i - 1)

FindAccountLast(accts, accountNumber) == FindLastFrom(accts, accountNumber, Len(accts))

FindAccount(accts, accountNumber) == FindFrom(accts, accountNumber, 1)

\* Bank::processMonthlyUpdates: the loop over the vector, front to back.
RECURSIVE ProcessFrom(_, _)
ProcessFrom(accts, i) ==
    IF i > Len(accts) THEN accts
    ELSE ProcessFrom([accts EXCEPT ![i] = ApplyMonthlyFee(accts[i])], i + 1)

\* Mutant: the loop starting one element late.
ProcessMonthlyUpdatesSkipFirst(accts) == ProcessFrom(accts, 2)

ProcessMonthlyUpdates(accts) == ProcessFrom(accts, 1)

\* ------------------------------------------------------------ input sets
AccountTypes == {"Checking", "Savings"}
AccountNumbers == {"CH001", "SV001"}
HolderOf == [k \in AccountNumbers |-> IF k = "CH001" THEN "John Doe" ELSE "Jane Smith"]
InitialBalances == {R(-1), R(0), R(100)}
Amounts == {R(-50), R(0), R(10), R(100)}

\* ------------------------------------------------------------------ state
\* accounts    Bank::accounts, the owned objects in push_back order
\* registered  history: each account's balance when it was pushed
\* pending     the unique_ptr a constructor call produced, not yet moved
\* ptr, key    the BankAccount* a caller holds from findAccount(key)
\* last        the most recent call: its arguments, the value returned and
\*             the exception thrown
\* prev        history: Bank::accounts as it was before the most recent call
\* calls       number of balance-changing calls made so far
\* client      "main" for the program's own main(), "any" for an arbitrary
\*             caller of the classes
\* pc          position in main()
Call(op, type, amount, ret, exc) ==
    [op |-> op, type |-> type, amount |-> amount, ret |-> ret, exc |-> exc]

Init ==
    /\ accounts = <<>>
    /\ prev = <<>>
    /\ registered = <<>>
    /\ pending = NoAccount
    /\ ptr = 0
    /\ key = ""
    /\ last = Call("none", "none", Zero, FALSE, NoException)
    /\ calls = 0
    /\ client \in {"main", "any"}
    /\ pc = IF client = "main" THEN "addChecking" ELSE "caller"
    /\ exitCode = -1
    /\ stderr = ""

\* ------------------------------------------------- calls from any caller
\* std::make_unique<T>(number, name, initialBalance)
NewAccount(type, number, name, initialBalance) ==
    /\ client = "any"
    /\ pending = NoAccount
    /\ Len(accounts) < MaxAccounts
    /\ LET r == MakeUnique(type, number, name, initialBalance)
       IN  /\ pending' = r.obj
           /\ last' = Call("construct", type, initialBalance, FALSE, r.exc)
    /\ prev' = accounts
    /\ UNCHANGED <<accounts, registered, ptr, key, calls, client, pc, exitCode, stderr>>

\* bank.addAccount(std::move(p))
Register ==
    /\ client = "any"
    /\ pending # NoAccount
    /\ accounts' = AddAccount(accounts, pending)
    /\ registered' = Append(registered, pending.balance)
    /\ pending' = NoAccount
    /\ last' = Call("addAccount", pending.type, pending.balance, FALSE, NoException)
    /\ prev' = accounts
    /\ UNCHANGED <<ptr, key, calls, client, pc, exitCode, stderr>>

\* p = bank.findAccount(number)
Find(number) ==
    /\ client = "any"
    /\ ptr' = FindAccount(accounts, number)
    /\ key' = number
    /\ last' = Call("findAccount", "none", Zero, FALSE, NoException)
    /\ prev' = accounts
    /\ UNCHANGED <<accounts, registered, pending, calls, client, pc, exitCode, stderr>>

\* p->deposit(amount) through a non-null pointer from findAccount
DepositVia(amount) ==
    /\ client = "any"
    /\ ptr # 0
    /\ calls < MaxCalls
    /\ LET r == Deposit(accounts[ptr], amount)
       IN  /\ accounts' = [accounts EXCEPT ![ptr] = r.acct]
           /\ last' = Call("deposit", accounts[ptr].type, amount, FALSE, r.exc)
    /\ prev' = accounts
    /\ calls' = calls + 1
    /\ UNCHANGED <<registered, pending, ptr, key, client, pc, exitCode, stderr>>

\* p->withdraw(amount) through a non-null pointer from findAccount
WithdrawVia(amount) ==
    /\ client = "any"
    /\ ptr # 0
    /\ calls < MaxCalls
    /\ LET r == Withdraw(accounts[ptr], amount)
       IN  /\ accounts' = [accounts EXCEPT ![ptr] = r.acct]
           /\ last' = Call("withdraw", accounts[ptr].type, amount, r.ret, r.exc)
    /\ prev' = accounts
    /\ calls' = calls + 1
    /\ UNCHANGED <<registered, pending, ptr, key, client, pc, exitCode, stderr>>

\* bank.processMonthlyUpdates()
MonthlyUpdates ==
    /\ client = "any"
    /\ calls < MaxCalls
    /\ accounts' = ProcessMonthlyUpdates(accounts)
    /\ last' = Call("processMonthlyUpdates", "none", Zero, FALSE, NoException)
    /\ prev' = accounts
    /\ calls' = calls + 1
    /\ UNCHANGED <<registered, pending, ptr, key, client, pc, exitCode, stderr>>

\* ------------------------------------------------------------------ main()
\* An exception thrown inside the try block is caught by the handler at
\* the end of main, which writes to std::cerr and falls through to return 0.
Caught(what) ==
    /\ stderr' = "Banking Error: " \o what
    /\ pc' = "return"

\* myBank.addAccount(std::make_unique<T>(number, name, initialBalance));
MainAdd(at, type, number, name, initialBalance, next) ==
    /\ client = "main"
    /\ pc = at
    /\ LET r == MakeUnique(type, number, name, initialBalance)
       IN  /\ last' = Call("construct", type, initialBalance, FALSE, r.exc)
           /\ IF r.exc # NoException
              THEN /\ Caught(r.exc)
                   /\ UNCHANGED <<accounts, registered>>
              ELSE /\ accounts' = AddAccount(accounts, r.obj)
                   /\ registered' = Append(registered, r.obj.balance)
                   /\ pc' = next
                   /\ UNCHANGED stderr
    /\ prev' = accounts
    /\ UNCHANGED <<pending, ptr, key, calls, client, exitCode>>

MainAddChecking ==
    MainAdd("addChecking", "Checking", "CH001", "John Doe", R(500), "addSavings")

MainAddSavings ==
    MainAdd("addSavings", "Savings", "SV001", "Jane Smith", R(1000), "find")

\* BankAccount* johnAccount = myBank.findAccount("CH001"); if (johnAccount) ...
MainFind ==
    /\ client = "main"
    /\ pc = "find"
    /\ ptr' = FindAccount(accounts, "CH001")
    /\ key' = "CH001"
    /\ last' = Call("findAccount", "none", Zero, FALSE, NoException)
    /\ prev' = accounts
    /\ pc' = IF ptr' # 0 THEN "deposit" ELSE "process"
    /\ UNCHANGED <<accounts, registered, pending, calls, client, exitCode, stderr>>

\* johnAccount->deposit(200.0);
MainDeposit ==
    /\ client = "main"
    /\ pc = "deposit"
    /\ LET r == Deposit(accounts[ptr], R(200))
       IN  /\ accounts' = [accounts EXCEPT ![ptr] = r.acct]
           /\ last' = Call("deposit", accounts[ptr].type, R(200), FALSE, r.exc)
           /\ IF r.exc # NoException
              THEN Caught(r.exc)
              ELSE pc' = "withdraw" /\ UNCHANGED stderr
    /\ prev' = accounts
    /\ calls' = calls + 1
    /\ UNCHANGED <<registered, pending, ptr, key, client, exitCode>>

\* johnAccount->withdraw(50.0);  (the returned bool is discarded)
MainWithdraw ==
    /\ client = "main"
    /\ pc = "withdraw"
    /\ LET r == Withdraw(accounts[ptr], R(50))
       IN  /\ accounts' = [accounts EXCEPT ![ptr] = r.acct]
           /\ last' = Call("withdraw", accounts[ptr].type, R(50), r.ret, r.exc)
           /\ IF r.exc # NoException
              THEN Caught(r.exc)
              ELSE pc' = "process" /\ UNCHANGED stderr
    /\ prev' = accounts
    /\ calls' = calls + 1
    /\ UNCHANGED <<registered, pending, ptr, key, client, exitCode>>

\* myBank.processMonthlyUpdates();
MainProcess ==
    /\ client = "main"
    /\ pc = "process"
    /\ accounts' = ProcessMonthlyUpdates(accounts)
    /\ last' = Call("processMonthlyUpdates", "none", Zero, FALSE, NoException)
    /\ prev' = accounts
    /\ calls' = calls + 1
    /\ pc' = "display"
    /\ UNCHANGED <<registered, pending, ptr, key, client, exitCode, stderr>>

\* myBank.displayAllAccounts();  (writes to std::cout only)
MainDisplay ==
    /\ client = "main"
    /\ pc = "display"
    /\ pc' = "return"
    /\ UNCHANGED <<accounts, prev, registered, pending, ptr, key, last, calls, client, exitCode, stderr>>

\* return 0;
MainReturn ==
    /\ client = "main"
    /\ pc = "return"
    /\ exitCode' = 0
    /\ pc' = "done"
    /\ UNCHANGED <<accounts, prev, registered, pending, ptr, key, last, calls, client, stderr>>

Main ==
    \/ MainAddChecking
    \/ MainAddSavings
    \/ MainFind
    \/ MainDeposit
    \/ MainWithdraw
    \/ MainProcess
    \/ MainDisplay
    \/ MainReturn

Next ==
    \/ \E t \in AccountTypes, k \in AccountNumbers, b \in InitialBalances :
          NewAccount(t, k, HolderOf[k], b)
    \/ Register
    \/ \E k \in AccountNumbers : Find(k)
    \/ \E a \in Amounts : DepositVia(a)
    \/ \E a \in Amounts : WithdrawVia(a)
    \/ MonthlyUpdates
    \/ Main

Spec == Init /\ [][Next]_vars

\* main() is sequential code that runs to its return: each step is taken.
FairSpec == Spec /\ WF_vars(Main)

\* ===================================================================
\* Properties
\* ===================================================================
Indices == 1..Len(accounts)

\* The last call was p->op(amount) on an account of the given variant; its
\* target is accounts[ptr], and prev[ptr] is the target before the call.
Called(op, type) == last.op = op /\ last.type = type

\* C1: CheckingAccount::withdraw(amount) with amount > 0 returns true and
\* takes exactly amount off the balance iff amount <= balance + 100;
\* otherwise it returns false and the balance is unchanged. Hence every
\* Checking account's balance is >= -100 in every reachable state.
C1_CheckingWithdraw ==
    /\ (Called("withdraw", "Checking") /\ Gt(last.amount, Zero)) =>
          /\ last.exc = NoException
          /\ last.ret = Le(last.amount, Add(prev[ptr].balance, R(100)))
          /\ accounts[ptr].balance =
                IF last.ret THEN Sub(prev[ptr].balance, last.amount)
                ELSE prev[ptr].balance
    /\ \A i \in Indices :
          accounts[i].type = "Checking" => Ge(accounts[i].balance, R(-100))

\* A Checking withdrawal of exactly balance + 100 succeeded and left -100.
C1_Witness ==
    /\ Called("withdraw", "Checking")
    /\ last.ret
    /\ last.amount = Add(prev[ptr].balance, R(100))
    /\ accounts[ptr].balance = R(-100)

\* C2: on a Savings account (base withdraw) amount > balance returns false
\* with the balance unchanged, 0 < amount <= balance returns true and takes
\* exactly amount off. Hence every Savings balance is >= 0 in every
\* reachable state.
C2_SavingsWithdraw ==
    /\ (Called("withdraw", "Savings") /\ Gt(last.amount, Zero)) =>
          /\ last.exc = NoException
          /\ last.ret = Le(last.amount, prev[ptr].balance)
          /\ accounts[ptr].balance =
                IF last.ret THEN Sub(prev[ptr].balance, last.amount)
                ELSE prev[ptr].balance
    /\ \A i \in Indices :
          accounts[i].type = "Savings" => Ge(accounts[i].balance, Zero)

\* A Savings withdrawal of more than the balance was refused.
C2_Witness ==
    /\ Called("withdraw", "Savings")
    /\ Gt(last.amount, prev[ptr].balance)
    /\ ~last.ret
    /\ last.exc = NoException

\* C3: deposit(x) and withdraw(x) with x <= 0 throw (they do not return
\* false) and leave the balance unchanged, for either variant and whatever
\* the balance is.
C3_InvalidAmount ==
    /\ (last.op = "deposit" /\ Le(last.amount, Zero)) =>
          /\ last.exc = InvalidDeposit
          /\ accounts = prev
    /\ (last.op = "withdraw" /\ Le(last.amount, Zero)) =>
          /\ last.exc = InvalidWithdrawal
          /\ accounts = prev

\* withdraw(0) on an overdrawn Checking account threw.
C3_Witness ==
    /\ Called("withdraw", "Checking")
    /\ last.amount = Zero
    /\ last.exc = InvalidWithdrawal
    /\ Lt(accounts[ptr].balance, Zero)

\* The last call was a constructor call for the given variant with the given
\* relation of the initial balance (kept in last.amount) to a threshold.
Constructed(type) == last.op = "construct" /\ last.type = type

\* C4 as stated: constructing a Savings account with any initial balance
\* below 100 throws the minimum-balance error and yields no object.
C4_AsStated ==
    (Constructed("Savings") /\ Lt(last.amount, R(100))) =>
        /\ last.exc = BelowMinimumBalance
        /\ pending = NoAccount

\* C4 (amended): constructing a Savings account with an initial balance
\* below 100 throws and yields no object; the error is the minimum-balance
\* one when 0 <= balance < 100, and the negative-balance one when
\* balance < 0 (the base constructor's check runs first).
C4_SavingsMinimum ==
    (Constructed("Savings") /\ Lt(last.amount, R(100))) =>
        /\ last.exc = IF Lt(last.amount, Zero) THEN NegativeInitialBalance
                      ELSE BelowMinimumBalance
        /\ pending = NoAccount
        /\ accounts = prev

\* A Savings constructor call with 0 <= balance < 100 threw the
\* minimum-balance error.
C4_Witness ==
    /\ Constructed("Savings")
    /\ Ge(last.amount, Zero)
    /\ Lt(last.amount, R(100))
    /\ last.exc = BelowMinimumBalance
    /\ pending = NoAccount

FeeCharged(b) == IF Ge(b, R(10)) THEN Sub(b, R(10)) ELSE b
InterestAdded(b) == Rat(b.n * 21, b.d * 20)

Processed == last.op = "processMonthlyUpdates"

\* C6: applyMonthlyFee on a Checking account takes exactly 10 off a balance
\* >= 10 and leaves a balance < 10 (negative ones included) unchanged: never
\* a partial charge, and never a non-negative balance made negative.
C6_CheckingFee ==
    Processed =>
        \A i \in Indices :
            accounts[i].type = "Checking" =>
                /\ accounts[i].balance = FeeCharged(prev[i].balance)
                /\ accounts[i].balance \in
                      {prev[i].balance, Sub(prev[i].balance, R(10))}
                /\ Ge(prev[i].balance, Zero) => Ge(accounts[i].balance, Zero)

\* One monthly update charged one Checking account in full and skipped an
\* overdrawn one.
C6_Witness ==
    /\ Processed
    /\ \E i \in Indices :
          /\ accounts[i].type = "Checking"
          /\ Ge(prev[i].balance, R(10))
          /\ accounts[i].balance = Sub(prev[i].balance, R(10))
    /\ \E i \in Indices :
          /\ accounts[i].type = "Checking"
          /\ Lt(prev[i].balance, Zero)
          /\ accounts[i].balance = prev[i].balance

\* C7: applyMonthlyFee on a Savings account always replaces the balance b by
\* b + b * 0.05: the increase is exactly b * 0.05, whatever b is.
C7_SavingsInterest ==
    Processed =>
        \A i \in Indices :
            accounts[i].type = "Savings" =>
                /\ accounts[i].balance = InterestAdded(prev[i].balance)
                /\ Sub(accounts[i].balance, prev[i].balance)
                      = Mul(prev[i].balance, Rat(5, 100))

\* Interest was added to a Savings balance that already carried interest.
C7_Witness ==
    /\ Processed
    /\ \E i \in Indices :
          /\ accounts[i].type = "Savings"
          /\ prev[i].balance = R(105)
          /\ accounts[i].balance = Rat(11025, 100)

\* Positions of the accounts whose number is k.
Matches(k) == {i \in Indices : accounts[i].accountNumber = k}

\* C8: findAccount(id) returns null when no account has that number and
\* otherwise the earliest-added account with it (duplicates allowed), and
\* changes nothing. The pointer is to the bank's own object: it stays the
\* account findAccount(id) returns, so a deposit or withdrawal made through
\* it shows in the balance of the account a later findAccount(id) returns.
C8_FindAccount ==
    /\ last.op = "findAccount" =>
          /\ accounts = prev
          /\ ptr = 0 <=> Matches(key) = {}
    /\ ptr # 0 =>
          /\ ptr \in Matches(key)
          /\ \A j \in Matches(key) : ptr <= j
          /\ (last.op = "deposit" /\ last.exc = NoException) =>
                accounts[FindAccount(accounts, key)].balance
                    = Add(prev[ptr].balance, last.amount)
          /\ (last.op = "withdraw" /\ last.ret) =>
                accounts[FindAccount(accounts, key)].balance
                    = Sub(prev[ptr].balance, last.amount)

\* Two accounts share a number; a deposit went through the pointer that
\* findAccount returned, which is the earlier of the two.
C8_Witness ==
    /\ Len(accounts) = 2
    /\ accounts[1].accountNumber = accounts[2].accountNumber
    /\ key = accounts[1].accountNumber
    /\ ptr = 1
    /\ last.op = "deposit"
    /\ last.exc = NoException
    /\ accounts[1].balance # prev[1].balance

\* The balance of main()'s account at position i.
BalanceIs(i, b) == Len(accounts) >= i /\ accounts[i].balance = b

\* The states main() passes through, by position.
MainResults ==
    client = "main" =>
        /\ pc \in {"addChecking", "addSavings", "find", "deposit", "withdraw",
                   "process", "display", "return", "done"}
        /\ stderr = ""
        /\ pc = "deposit" => ptr = 1 /\ BalanceIs(1, R(500))
        /\ pc = "withdraw" => BalanceIs(1, R(700))
        /\ pc = "process" =>
              /\ last.op = "withdraw" /\ last.ret
              /\ BalanceIs(1, R(650))
              /\ BalanceIs(2, R(1000))
        /\ pc \in {"display", "return", "done"} =>
              /\ Len(accounts) = 2
              /\ accounts[1].accountNumber = "CH001"
              /\ accounts[1].type = "Checking"
              /\ BalanceIs(1, R(640))
              /\ accounts[2].accountNumber = "SV001"
              /\ accounts[2].type = "Savings"
              /\ BalanceIs(2, R(1050))
        /\ pc = "done" <=> exitCode = 0

\* C9: main() always runs to its return with status 0, and on the way
\* CH001 (opened with 500) holds 700 after the deposit of 200, 650 after the
\* withdrawal of 50, which succeeds, and 640 after the monthly update, and
\* SV001 (opened with 1000) holds 1050 after that update.
C9_MainRun ==
    /\ []MainResults
    /\ (client = "main") ~> (pc = "done" /\ exitCode = 0)

\* main() has returned.
C9_Witness ==
    /\ client = "main"
    /\ pc = "done"
    /\ exitCode = 0
    /\ BalanceIs(1, R(640))
    /\ BalanceIs(2, R(1050))

\* C10: one processMonthlyUpdates call adjusts every account exactly once,
\* each from its own prior balance and variant alone, cannot fail, and leaves
\* the accounts' number, order, ids and holder names as they were.
C10_ProcessMonthlyUpdates ==
    Processed =>
        /\ last.exc = NoException
        /\ Len(accounts) = Len(prev)
        /\ \A i \in Indices :
              accounts[i] =
                 [prev[i] EXCEPT !.balance =
                     IF prev[i].type = "Checking" THEN FeeCharged(prev[i].balance)
                     ELSE InterestAdded(prev[i].balance)]

\* One call adjusted a Checking and a Savings account held together.
C10_Witness ==
    /\ Processed
    /\ Len(accounts) = 2
    /\ accounts[1].type # accounts[2].type
    /\ accounts[1].balance # prev[1].balance
    /\ accounts[2].balance # prev[2].balance

====
